---- MODULE Spec2Model ----
(***************************************************************************)
(* Model of the ingestion path of bank_fina_analysis:                      *)
(*   src/src/tushare_data_fetcher.py  (run_fetcher, fetch_and_save_data,   *)
(*   mysql_insert_ignore, mysql_insert_update, get_bank_codes),            *)
(* and of the schema set-up:                                               *)
(*   src/src/create_database.py  (execute_sql_script).                     *)
(*                                                                         *)
(* A fetched row is a dict column -> value (as in dict(zip(keys, row))),   *)
(* a table is the set of its stored rows, a DataFrame is its column set    *)
(* together with the sequence of its rows.                                 *)
(*                                                                         *)
(* Engine semantics the code relies on (MySQL, default strict sql_mode,    *)
(* transactional tables; pandas DataFrame.to_sql):                         *)
(*   - a plain INSERT of a row whose primary-key column is NULL fails the  *)
(*     whole statement (error 1048);                                       *)
(*   - INSERT IGNORE downgrades that error to a warning and stores the row *)
(*     with the implicit default of the column;                            *)
(*   - to_sql runs all chunks of one call inside ONE transaction, which is *)
(*     rolled back as a whole when a chunk raises.                         *)
(***************************************************************************)
EXTENDS Integers, Sequences, FiniteSets, TLC

VARIABLES
    pc,          \* position of the process (run_fetcher / fetch_and_save_data)
    banks,       \* the banks table: [readable, stock_code]
    bank_codes,  \* run_fetcher's local list of codes
    i,           \* index of the current bank in bank_codes (1-based)
    j,           \* index of the current api_name in TS_API_LIST (1-based)
    df,          \* the DataFrame returned by the fetch of the current cell
    fault,       \* chunk number at which the connection raises (0: nowhere)
    tables,      \* table name -> set of stored rows
    before,      \* tables as they were when the current cell started
    outcome,     \* how the last cell ended: "none", "done", "skipped", "failed"
    fetched,     \* the cells whose fetch was issued, in order
    report,      \* number of cells ended done / skipped / failed
    exit_code,   \* <<>> while running, <<c>> once the process has ended
    pauses,      \* number of time.sleep(0.1) calls performed so far
    summary,     \* quantity -> value, as printed by the completion line
    \* create_database.execute_sql_script
    db_config,   \* the caller's dict: key -> value
    at_call,     \* db_config as it was when the function was called
    temp_config, \* the function's copy of db_config
    db_name,     \* the value popped from temp_config
    sql_script,  \* the script: its pieces between the ';' separators
    sql_commands,\* the statements of the script, in order
    pos,         \* index of the current statement (1-based)
    conns,       \* the connections opened so far: "open", "closed" or "lost"
    cnx,         \* index in conns of the function's connection (0: None)
    attempts,    \* the statements handed to the server: <<index, errno>>
    committed    \* cnx.commit() was performed

\* state of execute_sql_script
schema_vars == <<db_config, at_call, temp_config, db_name, sql_script,
                 sql_commands, pos, conns, cnx, attempts, committed>>

\* state of run_fetcher other than the position
fetcher_vars == <<banks, bank_codes, i, j, df, fault, tables, before, outcome,
                  fetched, report, exit_code, pauses, summary>>

vars == <<pc, fetcher_vars, schema_vars>>

----------------------------------------------------------------------------
\* Bounds of the model

\* longest fetched batch
MaxLen == 3

\* rows per chunk of to_sql (chunksize=5000 in the source, scaled down)
ChunkSize == 2

----------------------------------------------------------------------------
\* Catalog

TS_API_LIST == <<"income", "balancesheet", "fina_indicator", "dividend">>

TABLE_MAPPING ==
    [income |-> "t_income", balancesheet |-> "t_balancesheet",
     fina_indicator |-> "t_fina_indicator", dividend |-> "t_dividend"]

TableNames == {TABLE_MAPPING[TS_API_LIST[n]] : n \in 1..Len(TS_API_LIST)}

----------------------------------------------------------------------------
\* Rows

\* SQL NULL / pandas None in a column
NULL == "NULL"

\* implicit default MySQL stores for a NOT NULL key column under IGNORE
IMPLICIT_DEFAULT == ""

\* the composite primary key of every target table
PrimaryKey(row) == <<row["ts_code"], row["end_date"]>>

HasNullKey(row) == row["ts_code"] = NULL \/ row["end_date"] = NULL

Min(a, b) == IF a < b THEN a ELSE b

----------------------------------------------------------------------------
\* mysql_insert_ignore: INSERT IGNORE INTO t (keys) VALUES (...)

\* one row of the statement
InsertIgnoreRow(rows, row) ==
    LET stored == [c \in DOMAIN row |->
                      IF c \in {"ts_code", "end_date"} /\ row[c] = NULL
                      THEN IMPLICIT_DEFAULT ELSE row[c]]
    IN IF \E e \in rows : PrimaryKey(e) = PrimaryKey(stored)
       THEN rows
       ELSE rows \cup {stored}

RECURSIVE InsertIgnoreAll(_, _, _)
InsertIgnoreAll(rows, data, n) ==
    IF n > Len(data) THEN rows
    ELSE InsertIgnoreAll(InsertIgnoreRow(rows, data[n]), data, n + 1)

\* INSERT without IGNORE: a duplicate or NULL key raises
MysqlInsertPlain(rows, keys, data_to_insert) ==
    IF \/ \E n \in 1..Len(data_to_insert) : HasNullKey(data_to_insert[n])
       \/ \E n \in 1..Len(data_to_insert) : \E e \in rows :
             PrimaryKey(e) = PrimaryKey(data_to_insert[n])
       \/ \E n, m \in 1..Len(data_to_insert) :
             n # m /\ PrimaryKey(data_to_insert[n]) = PrimaryKey(data_to_insert[m])
    THEN [ok |-> FALSE, rows |-> rows]
    ELSE [ok |-> TRUE, rows |-> rows \cup {data_to_insert[n] : n \in 1..Len(data_to_insert)}]

mysql_insert_ignore(rows, keys, data_to_insert) ==
    [ok |-> TRUE, rows |-> InsertIgnoreAll(rows, data_to_insert, 1)]

----------------------------------------------------------------------------
\* mysql_insert_update: INSERT INTO t (keys) VALUES (...)
\*                      ON DUPLICATE KEY UPDATE update_cols

\* update_cols: whether column k of the stored row takes VALUES(k)
UpdateColCommentedOut(k, keys, incoming) ==
    IF "update_flag" \in keys
    THEN k = "update_flag" \/ incoming["update_flag"] = 1
    ELSE TRUE

UpdateColFlagIgnored(k, keys, incoming) == TRUE

UpdateColNeverWithoutFlag(k, keys, incoming) ==
    IF "update_flag" \in keys
    THEN incoming["update_flag"] = 1
    ELSE FALSE

update_cols(k, keys, incoming) ==
    LET has_update_flag == "update_flag" \in keys
    IN IF has_update_flag
       THEN incoming["update_flag"] = 1
       ELSE TRUE

\* IF(update_flag = 1, ...): the stored marker tested, not VALUES(update_flag)
OnDuplicateKeyTestsStored(existing, incoming, keys) ==
    IF "update_flag" \in DOMAIN existing /\ existing["update_flag"] = 1
    THEN [c \in DOMAIN existing \cup keys |->
             IF c \in keys THEN incoming[c] ELSE existing[c]]
    ELSE existing

OnDuplicateKeyUpdate(existing, incoming, keys) ==
    LET taken == {k \in keys : update_cols(k, keys, incoming)}
    IN [c \in DOMAIN existing \cup taken |->
           IF c \in taken THEN incoming[c] ELSE existing[c]]

\* INSERT that appends without looking for the key
InsertUpdateRowAppends(rows, keys, row) == rows \cup {row}

InsertUpdateRow(rows, keys, row) ==
    IF \E e \in rows : PrimaryKey(e) = PrimaryKey(row)
    THEN LET e == CHOOSE e \in rows : PrimaryKey(e) = PrimaryKey(row)
         IN (rows \ {e}) \cup {OnDuplicateKeyUpdate(e, row, keys)}
    ELSE rows \cup {row}

RECURSIVE InsertUpdateAll(_, _, _, _)
InsertUpdateAll(rows, keys, data, n) ==
    IF n > Len(data) THEN rows
    ELSE InsertUpdateAll(InsertUpdateRow(rows, keys, data[n]), keys, data, n + 1)

mysql_insert_update(rows, keys, data_to_insert) ==
    IF \E n \in 1..Len(data_to_insert) : HasNullKey(data_to_insert[n])
    THEN [ok |-> FALSE, rows |-> rows]
    ELSE [ok |-> TRUE, rows |-> InsertUpdateAll(rows, keys, data_to_insert, 1)]

----------------------------------------------------------------------------
\* DataFrame.to_sql(table_name, engine, if_exists='append', chunksize, method)

WriteMethodAlwaysUpdate(api_name) == "mysql_insert_update"

write_method(api_name) ==
    IF api_name = "dividend" THEN "mysql_insert_ignore" ELSE "mysql_insert_update"

ExecInsert(method, rows, keys, chunk) ==
    IF method = "mysql_insert_ignore"
    THEN mysql_insert_ignore(rows, keys, chunk)
    ELSE mysql_insert_update(rows, keys, chunk)

\* chunks n, n+1, ... applied in order to the transaction's working rows;
\* stops at the first chunk that raises
RECURSIVE InsertChunks(_, _, _, _, _, _)
InsertChunks(work, frame, method, chunksize, n, failAt) ==
    LET start == (n - 1) * chunksize + 1
        end   == Min(n * chunksize, Len(frame.rows))
    IN IF start > end THEN [ok |-> TRUE, rows |-> work]
       ELSE IF failAt = n THEN [ok |-> FALSE, rows |-> work]
       ELSE LET r == ExecInsert(method, work, frame.columns,
                                SubSeq(frame.rows, start, end))
            IN IF ~r.ok THEN [ok |-> FALSE, rows |-> work]
               ELSE InsertChunks(r.rows, frame, method, chunksize, n + 1, failAt)

\* a transaction per chunk: what is applied before the failing chunk stays
ToSqlCommitPerChunk(rows, frame, method, chunksize, failAt) ==
    InsertChunks(rows, frame, method, chunksize, 1, failAt)

\* one transaction around all chunks
to_sql(rows, frame, method, chunksize, failAt) ==
    LET r == InsertChunks(rows, frame, method, chunksize, 1, failAt)
    IN IF r.ok THEN r ELSE [ok |-> FALSE, rows |-> rows]

NumChunks(frame, chunksize) == (Len(frame.rows) + chunksize - 1) \div chunksize

----------------------------------------------------------------------------
\* fetch_and_save_data, after the fetch returned a non-empty DataFrame

\* fillna(1): an absent marker taken as true
FillnaOneAstypeInt(v) == IF v = "0" THEN 0 ELSE 1

\* df['update_flag'].fillna(0).astype(int) on one value ("0", "1" or NaN)
FillnaAstypeInt(v) == IF v = "NaN" THEN 0 ELSE IF v = "1" THEN 1 ELSE 0

NormaliseUpdateFlag(frame) ==
    IF "update_flag" \in frame.columns
    THEN [frame EXCEPT !.rows =
             [n \in 1..Len(frame.rows) |->
                 [frame.rows[n] EXCEPT !["update_flag"] = FillnaAstypeInt(@)]]]
    ELSE frame

\* the write of one cell: the tables after it and how the cell ended
SaveFrame(tabs, api_name, frame, failAt) ==
    LET table_name == TABLE_MAPPING[api_name]
        r == to_sql(tabs[table_name], NormaliseUpdateFlag(frame),
                    write_method(api_name), ChunkSize, failAt)
    IN [tables  |-> [tabs EXCEPT ![table_name] = r.rows],
        outcome |-> IF r.ok THEN "done" ELSE "failed"]

----------------------------------------------------------------------------
\* Inputs

Periods == {"p1", "p2"}

BankUniverse == <<"b1", "b2">>

NoFrame == [error |-> FALSE, columns |-> {}, rows |-> <<>>]

FetchError == [error |-> TRUE, columns |-> {}, rows |-> <<>>]

WithFlag == {"ts_code", "end_date", "val", "update_flag"}

WithoutFlag == {"ts_code", "end_date", "val"}

\* a fetched row: val is the row's position in the batch, so that the stored
\* value tells which incoming row it came from (0 is a row stored earlier)
FetchedRow(columns, ts_code, end_date, val, update_flag) ==
    IF "update_flag" \in columns
    THEN [ts_code |-> ts_code, end_date |-> end_date, val |-> val,
          update_flag |-> update_flag]
    ELSE [ts_code |-> ts_code, end_date |-> end_date, val |-> val]

\* <<end_date, update_flag>> of a fetched row; a row without its key field
\* is NULL in end_date
RowShapes(columns) ==
    IF "update_flag" \in columns
    THEN (Periods \X {"0", "1", "NaN"}) \cup {<<NULL, "1">>}
    ELSE (Periods \cup {NULL}) \X {"0"}

FramesOfLen(columns, ts_code, n) ==
    {[error |-> FALSE, columns |-> columns,
      rows |-> [k \in 1..n |->
                   FetchedRow(columns, ts_code, s[k][1], k, s[k][2])]] :
        s \in [1..n -> RowShapes(columns)]}

\* every DataFrame of at most MaxLen rows, with or without the marker column
Frames(ts_code) ==
    UNION {FramesOfLen(columns, ts_code, n) :
              columns \in {WithFlag, WithoutFlag}, n \in 0..MaxLen}

\* rows a table may hold from earlier runs (val 0)
StoredRows(api_name, ts_code) ==
    IF api_name \in {"income", "balancesheet"}
    THEN {FetchedRow(WithFlag, ts_code, p, 0, f) : p \in Periods, f \in {0, 1}}
    ELSE {FetchedRow(WithoutFlag, ts_code, p, 0, 0) : p \in Periods}

OneRowPerKey(rows) ==
    \A a, b \in rows : PrimaryKey(a) = PrimaryKey(b) => a = b

StartContents(api_name, ts_code) ==
    {rows \in SUBSET StoredRows(api_name, ts_code) : OneRowPerKey(rows)}

EmptyTables == [t \in TableNames |-> {}]

ZeroReport == [done |-> 0, skipped |-> 0, failed |-> 0]

----------------------------------------------------------------------------
\* run_fetcher: the driver

\* contents of the banks table at the start of a run
BanksTables ==
    {[readable |-> FALSE, stock_code |-> <<>>],
     [readable |-> TRUE,  stock_code |-> <<>>],
     [readable |-> TRUE,  stock_code |-> SubSeq(BankUniverse, 1, 1)],
     [readable |-> TRUE,  stock_code |-> BankUniverse]}

\* what the fetch of a cell may return in a run: the marker column comes with
\* the statement interfaces only
DriverColumns(api_name) ==
    IF api_name \in {"income", "balancesheet"} THEN WithFlag ELSE WithoutFlag

DriverFrames(ts_code, api_name) ==
    LET cols == DriverColumns(api_name)
        F(shapes) ==
            [error |-> FALSE, columns |-> cols,
             rows |-> [k \in 1..Len(shapes) |->
                          FetchedRow(cols, ts_code, shapes[k][1], k, shapes[k][2])]]
    IN {FetchError,
        F(<<>>),
        F(<<(<<"p1", "1">>)>>),
        F(<<(<<"p1", "0">>), (<<"p1", "1">>)>>),
        F(<<(<<"p1", "1">>), (<<"p2", "NaN">>), (<<NULL, "1">>)>>)}

\* a table that already holds the first period of the first bank
Prefilled ==
    [t \in TableNames |->
        IF t \in {"t_income", "t_balancesheet"}
        THEN {FetchedRow(WithFlag, BankUniverse[1], "p1", 0, 1)}
        ELSE {FetchedRow(WithoutFlag, BankUniverse[1], "p1", 0, 0)}]

\* the completion line has not been printed
NoSummary == [q \in {} |-> 0]

\* execute_sql_script is not running
SchemaIdle ==
    /\ db_config = [q \in {} |-> ""]
    /\ at_call = db_config
    /\ temp_config = db_config
    /\ db_name = ""
    /\ sql_script = <<>>
    /\ sql_commands = <<>>
    /\ pos = 1
    /\ conns = <<>>
    /\ cnx = 0
    /\ attempts = <<>>
    /\ committed = FALSE

Init ==
    /\ pc = "start"
    /\ banks \in BanksTables
    /\ bank_codes = <<>>
    /\ i = 1
    /\ j = 1
    /\ df = NoFrame
    /\ fault = 0
    /\ tables \in {EmptyTables, Prefilled}
    /\ before = tables
    /\ outcome = "none"
    /\ fetched = <<>>
    /\ report = ZeroReport
    /\ exit_code = <<>>
    /\ pauses = 0
    /\ summary = NoSummary
    /\ SchemaIdle

\* lines 212-225: configuration, API client, engine, SELECT 1
Initialize ==
    /\ pc = "start"
    /\ \E ok \in BOOLEAN :
          IF ok
          THEN pc' = "lookup" /\ exit_code' = exit_code
          ELSE pc' = "exited" /\ exit_code' = <<1>>
    /\ UNCHANGED <<banks, bank_codes, i, j, df, fault, tables, before, outcome,
                   fetched, report, pauses, summary>>
    /\ UNCHANGED schema_vars

\* get_bank_codes: [] when the table is empty and when reading it raises
get_bank_codes(b) == IF b.readable THEN b.stock_code ELSE <<>>

\* lines 228-230
LookupBanks ==
    /\ pc = "lookup"
    /\ bank_codes' = get_bank_codes(banks)
    /\ IF bank_codes' = <<>>
       THEN pc' = "exited" /\ exit_code' = <<0>>
       ELSE pc' = "fetch" /\ exit_code' = exit_code
    /\ UNCHANGED <<banks, i, j, df, fault, tables, before, outcome, fetched,
                   report, pauses, summary>>
    /\ UNCHANGED schema_vars

Count(rep, how) == [rep EXCEPT ![how] = @ + 1]

\* where fetch_and_save_data goes once the cell has ended: the except clause
\* swallows the error and the finally clause pauses
AfterFailedCellHalts(how) == IF how = "failed" THEN "exited" ELSE "pause"

AfterFailedCellRetries(how) == IF how = "failed" THEN "fetch" ELSE "pause"

AfterCell(how) == "pause"

\* lines 174-178 and 196-200: how the cell ends at the fetch ("none": it goes
\* on to the write)
EmptyFetchIsFailure(res) ==
    IF res.error \/ res.rows = <<>> THEN "failed" ELSE "none"

FetchOutcome(res) ==
    IF res.error THEN "failed"
    ELSE IF res.rows = <<>> THEN "skipped"
    ELSE "none"

\* lines 168-178: the fetch of the current cell
Fetch ==
    /\ pc = "fetch"
    /\ fetched' = Append(fetched, <<bank_codes[i], TS_API_LIST[j]>>)
    /\ before' = tables
    /\ \E res \in DriverFrames(bank_codes[i], TS_API_LIST[j]) :
          LET how == FetchOutcome(res)
          IN /\ outcome' = how
             /\ report' = IF how = "none" THEN report ELSE Count(report, how)
             /\ df' = IF res.error THEN NoFrame ELSE res
             /\ pc' = IF how = "none" THEN "write" ELSE AfterCell(how)
    /\ UNCHANGED <<banks, bank_codes, i, j, fault, tables, exit_code, pauses,
                   summary>>
    /\ UNCHANGED schema_vars

\* lines 180-201: normalise the marker and write the batch
Save ==
    /\ pc = "write"
    /\ \E f \in 0..NumChunks(df, ChunkSize) :
          LET r == SaveFrame(tables, TS_API_LIST[j], df, f)
          IN /\ fault' = f
             /\ tables' = r.tables
             /\ outcome' = r.outcome
             /\ report' = Count(report, r.outcome)
             /\ pc' = AfterCell(r.outcome)
    /\ df' = NoFrame
    /\ UNCHANGED <<banks, bank_codes, i, j, before, fetched, exit_code, pauses,
                   summary>>
    /\ UNCHANGED schema_vars

\* lines 204-206: the finally clause sleeps once, however the cell ended
FinallySleepsOnSuccessOnly(how) == IF how = "done" THEN 1 ELSE 0

finally_sleep(how) == 1

\* line 244: the completion line prints the elapsed time and nothing else
CompletionLine(elapsed, rep) == [elapsed |-> elapsed]

\* lines 204-206 and the loops of lines 237-244
Pause ==
    /\ pc = "pause"
    /\ pauses' = pauses + finally_sleep(outcome)
    /\ IF j < Len(TS_API_LIST)
       THEN /\ j' = j + 1
            /\ pc' = "fetch"
            /\ UNCHANGED <<i, exit_code, summary>>
       ELSE IF i < Len(bank_codes)
       THEN /\ i' = i + 1
            /\ j' = 1
            /\ pc' = "fetch"
            /\ UNCHANGED <<exit_code, summary>>
       ELSE /\ pc' = "completed"
            /\ exit_code' = <<0>>
            /\ summary' = CompletionLine(pauses', report)
            /\ UNCHANGED <<i, j>>
    /\ UNCHANGED <<banks, bank_codes, df, fault, tables, before, outcome,
                   fetched, report>>
    /\ UNCHANGED schema_vars

Next == Initialize \/ LookupBanks \/ Fetch \/ Save \/ Pause

Spec == Init /\ [][Next]_vars

----------------------------------------------------------------------------
\* One cell from any table content: fetch_and_save_data applied to a fetched
\* DataFrame, then applied again to the same DataFrame (a re-run of the cell)

\* lines 176-201 for a DataFrame in hand
ProcessFrame(tabs, api_name, frame, failAt) ==
    IF frame.rows = <<>>
    THEN [tables |-> tabs, outcome |-> "skipped"]
    ELSE SaveFrame(tabs, api_name, frame, failAt)

InitWrite ==
    /\ pc = "w0"
    /\ banks = [readable |-> TRUE, stock_code |-> SubSeq(BankUniverse, 1, 1)]
    /\ bank_codes = banks.stock_code
    /\ i = 1
    /\ j \in 1..Len(TS_API_LIST)
    /\ df \in Frames(bank_codes[1])
    /\ fault = 0
    /\ \E rows \in StartContents(TS_API_LIST[j], bank_codes[1]) :
          tables = [EmptyTables EXCEPT ![TABLE_MAPPING[TS_API_LIST[j]]] = rows]
    /\ before = tables
    /\ outcome = "none"
    /\ fetched = <<>>
    /\ report = ZeroReport
    /\ exit_code = <<>>
    /\ pauses = 0
    /\ summary = NoSummary
    /\ SchemaIdle

Ingest ==
    /\ pc = "w0"
    /\ \E f \in 0..NumChunks(df, ChunkSize) :
          LET r == ProcessFrame(tables, TS_API_LIST[j], df, f)
          IN /\ fault' = f
             /\ tables' = r.tables
             /\ outcome' = r.outcome
             /\ report' = Count(report, r.outcome)
    /\ before' = tables
    /\ pc' = "w1"
    /\ UNCHANGED <<banks, bank_codes, i, j, df, fetched, exit_code, pauses,
                   summary>>
    /\ UNCHANGED schema_vars

\* the same batch once more, after a first write no fault disturbed
Reingest ==
    /\ pc = "w1"
    /\ fault = 0
    /\ LET r == ProcessFrame(tables, TS_API_LIST[j], df, 0)
       IN /\ tables' = r.tables
          /\ outcome' = r.outcome
          /\ report' = Count(report, r.outcome)
    /\ before' = tables
    /\ pc' = "w2"
    /\ UNCHANGED <<banks, bank_codes, i, j, df, fault, fetched, exit_code,
                   pauses, summary>>
    /\ UNCHANGED schema_vars

NextWrite == Ingest \/ Reingest

SpecWrite == InitWrite /\ [][NextWrite]_vars

----------------------------------------------------------------------------
\* Vocabulary of the properties

CellApi == TS_API_LIST[j]

CellTable == TABLE_MAPPING[CellApi]

\* rows of the cell's table now, and when the last write started
Stored == tables[CellTable]

StoredBefore == before[CellTable]

IsStatement(api_name) == api_name \in {"income", "balancesheet"}

HasMarkerColumn == "update_flag" \in df.columns

\* positions of the batch whose row carries key k
Hits(k) == {n \in 1..Len(df.rows) : PrimaryKey(df.rows[n]) = k}

\* those of them whose fetched marker is true
TrueHits(k) == {n \in Hits(k) : df.rows[n]["update_flag"] = "1"}

Last(S) == CHOOSE n \in S : \A m \in S : m <= n

First(S) == CHOOSE n \in S : \A m \in S : n <= m

\* the stored row with key k holds the payload of batch row n
HoldsPayloadOf(rows, k, n) ==
    \E c \in rows : PrimaryKey(c) = k /\ c["val"] = df.rows[n]["val"]

\* a write of the statement kind has completed on a batch with markers
StatementWriteDone ==
    /\ pc = "w1"
    /\ IsStatement(CellApi)
    /\ HasMarkerColumn
    /\ outcome = "done"

----------------------------------------------------------------------------
\* C1 - Revision protection. In a statement table holding a row for key K,
\* incoming rows for K whose marker is false leave the stored row of K
\* unchanged in every field, and an incoming row for K whose marker is true
\* replaces the stored fields by its own (the last such row of the batch is
\* what stays stored).
C1_RevisionProtection ==
    StatementWriteDone =>
        \A e \in StoredBefore :
            LET k == PrimaryKey(e)
            IN /\ (Hits(k) # {} /\ \A n \in Hits(k) : df.rows[n]["update_flag"] = "0")
                      => e \in Stored
               /\ TrueHits(k) # {}
                      => \E c \in Stored :
                            /\ PrimaryKey(c) = k
                            /\ c["val"] = df.rows[Last(TrueHits(k))]["val"]
                            /\ c["update_flag"] = 1

\* a stored corrected row met a true-marker row and then a false-marker row
\* of the same key: the first replaced it, the second did not
C1_Witness ==
    /\ StatementWriteDone
    /\ Len(df.rows) = 2
    /\ \E e \in StoredBefore :
          /\ e["update_flag"] = 1
          /\ Hits(PrimaryKey(e)) = {1, 2}
          /\ df.rows[1]["update_flag"] = "1"
          /\ df.rows[2]["update_flag"] = "0"
          /\ HoldsPayloadOf(Stored, PrimaryKey(e), 1)
          /\ e \notin Stored

----------------------------------------------------------------------------
\* C2 - First-write-wins for dividend records. Every row stored in t_dividend
\* before a write is stored unchanged after it, and a key that was not
\* stored holds, after a completed write, the first row the batch carries
\* for it; whatever the batch and whether it is a first or a repeated write.
C2_FirstWriteWins ==
    (pc \in {"w1", "w2"} /\ CellApi = "dividend") =>
        /\ \A e \in StoredBefore : e \in Stored
        /\ OneRowPerKey(Stored)
        /\ outcome = "done" =>
              \A n \in 1..Len(df.rows) :
                  LET k == PrimaryKey(df.rows[n])
                  IN (~HasNullKey(df.rows[n])
                      /\ \A e \in StoredBefore : PrimaryKey(e) # k)
                         => HoldsPayloadOf(Stored, k, First(Hits(k)))

\* a stored dividend row met an incoming row of its key with another payload
\* and stayed, and a new key arrived twice in the batch and kept its first row
C2_Witness ==
    /\ pc = "w1"
    /\ CellApi = "dividend"
    /\ outcome = "done"
    /\ Len(df.rows) = 3
    /\ \E e \in StoredBefore : Hits(PrimaryKey(e)) = {1} /\ e \in Stored
    /\ \E k \in {PrimaryKey(df.rows[2])} :
          /\ Hits(k) = {2, 3}
          /\ HoldsPayloadOf(Stored, k, 2)

----------------------------------------------------------------------------
\* C3 - Idempotent re-ingestion. For every record type and starting content,
\* writing the same batch a second time leaves every table as the first
\* write left it, and the second write ends the way the first did.
C3_Idempotent ==
    pc = "w2" =>
        /\ tables = before
        /\ \E how \in {"done", "skipped", "failed"} :
              outcome = how /\ report[how] = 2

\* the first write changed the table, the batch carries one key twice, and
\* the second write has been made
C3_Witness ==
    /\ pc = "w2"
    /\ outcome = "done"
    /\ Len(df.rows) = 3
    /\ PrimaryKey(df.rows[1]) = PrimaryKey(df.rows[3])
    /\ Stored # {}
    /\ \E n \in {1, 3} : ~HoldsPayloadOf(Stored, PrimaryKey(df.rows[1]), n)

----------------------------------------------------------------------------
\* C4 - Full overwrite for indicator records.

IndicatorWriteDone ==
    /\ pc = "w1"
    /\ CellApi = "fina_indicator"
    /\ outcome = "done"

\* every stored row whose key the batch carries holds, in every column of the
\* batch, the value of the last incoming row of that key
OverwrittenByLast ==
    \A e \in StoredBefore :
        LET k == PrimaryKey(e)
        IN Hits(k) # {} =>
              \E c \in Stored :
                  /\ PrimaryKey(c) = k
                  /\ c["val"] = df.rows[Last(Hits(k))]["val"]
                  /\ HasMarkerColumn =>
                        /\ "update_flag" \in DOMAIN c
                        /\ c["update_flag"] =
                              FillnaAstypeInt(df.rows[Last(Hits(k))]["update_flag"])

----------------------------------------------------------------------------
\* C5 - The marker follows the decision of the other fields. On a collision
\* in a statement table the stored marker changes only when an incoming row
\* of that key has a true marker, and then together with the payload of that
\* row; a stored marker that is true stays true.
C5_MarkerNotSpecial ==
    (pc \in {"w1", "w2"} /\ IsStatement(CellApi)) =>
        \A e \in StoredBefore :
            "update_flag" \in DOMAIN e =>
                \E c \in Stored :
                    LET k == PrimaryKey(e)
                    IN /\ PrimaryKey(c) = k
                       /\ "update_flag" \in DOMAIN c
                       /\ e["update_flag"] = 1 => c["update_flag"] = 1
                       /\ c["update_flag"] # e["update_flag"] =>
                             /\ HasMarkerColumn
                             /\ TrueHits(k) # {}
                             /\ c["val"] = df.rows[Last(TrueHits(k))]["val"]
                       /\ (HasMarkerColumn /\ c["val"] # e["val"]) =>
                             /\ TrueHits(k) # {}
                             /\ c["update_flag"] = 1

\* one stored row with a true marker met a false-marker row and kept its
\* marker; another with a false marker met a true-marker row and took it
C5_Witness ==
    /\ StatementWriteDone
    /\ Len(df.rows) = 2
    /\ \E e1, e2 \in StoredBefore :
          /\ e1["update_flag"] = 1
          /\ e2["update_flag"] = 0
          /\ Hits(PrimaryKey(e1)) = {1}
          /\ Hits(PrimaryKey(e2)) = {2}
          /\ df.rows[1]["update_flag"] = "0"
          /\ df.rows[2]["update_flag"] = "1"
          /\ e1 \in Stored
          /\ \E c \in Stored :
                PrimaryKey(c) = PrimaryKey(e2) /\ c["update_flag"] = 1

----------------------------------------------------------------------------
\* C6 - Failure isolation.

\* the cells of a run, banks in registry order, interfaces in catalog order
CellOrder(codes) ==
    [n \in 1..(Len(codes) * Len(TS_API_LIST)) |->
        <<codes[((n - 1) \div Len(TS_API_LIST)) + 1],
          TS_API_LIST[((n - 1) % Len(TS_API_LIST)) + 1]>>]

InLoop == pc \in {"fetch", "write", "pause"}

\* C6: a run that found banks leaves the loop only as completed and with the
\* fetch of every cell issued, whichever cells failed in fetch or in write;
\* a cell that failed is followed by the pause, never by the end of the run.
C6_FailureIsolation ==
    /\ (bank_codes # <<>> /\ ~InLoop) =>
          (pc = "completed" /\ fetched = CellOrder(bank_codes))
    /\ outcome = "failed" => pc # "exited"

\* a run over two banks in which every cell failed, completed
C6_Witness ==
    /\ pc = "completed"
    /\ Len(bank_codes) = 2
    /\ report["failed"] = Len(fetched)
    /\ Len(fetched) = 2 * Len(TS_API_LIST)

----------------------------------------------------------------------------
\* C7 - A failed registry lookup is fatal: when the banks table cannot be
\* read the process ends without any cell processed and with an exit code
\* other than 0.
C7_RegistryFailureFatal ==
    (~banks.readable /\ exit_code # <<>>) =>
        (fetched = <<>> /\ exit_code # <<0>>)

----------------------------------------------------------------------------
\* C8 - Batch atomicity on malformed rows: a batch one of whose rows lacks a
\* key field leaves the table as it was and the cell failed, for every
\* record type.
C8_MalformedRejectsBatch ==
    (pc = "w1" /\ \E n \in 1..Len(df.rows) : HasNullKey(df.rows[n])) =>
        (tables = before /\ outcome = "failed")

----------------------------------------------------------------------------
\* C9 - Chunk independence: a batch written in chunks of ChunkSize rows
\* leaves the table as the same batch written as one chunk leaves it.
C9_ChunkIndependence ==
    (pc = "w1" /\ fault = 0 /\ df.rows # <<>>) =>
        Stored = to_sql(StoredBefore, NormaliseUpdateFlag(df),
                        write_method(CellApi), Len(df.rows), 0).rows

\* a batch of more than one chunk whose first row and first row of the
\* second chunk share a key was written and changed the table
C9_Witness ==
    /\ pc = "w1"
    /\ fault = 0
    /\ outcome = "done"
    /\ Len(df.rows) > ChunkSize
    /\ PrimaryKey(df.rows[1]) = PrimaryKey(df.rows[ChunkSize + 1])
    /\ Stored # StoredBefore

----------------------------------------------------------------------------
\* C10 - Rollback when a chunk fails.

NoNullKey == \A n \in 1..Len(df.rows) : ~HasNullKey(df.rows[n])

\* the batch cut to the chunks before chunk k
ChunksBefore(k) ==
    [df EXCEPT !.rows = SubSeq(df.rows, 1, (k - 1) * ChunkSize)]

ChunkRaised ==
    \/ fault >= 1
    \/ CellApi # "dividend" /\ ~NoNullKey

----------------------------------------------------------------------------
\* C11: every cell is followed by the pause, however it ended (done, skipped
\* on an empty fetch, failed in the fetch or in the write), and the pause comes
\* before the next fetch is issued: when a fetch is about to be issued, and
\* when the run has completed, as many pauses as fetches have been performed;
\* while a cell is in progress exactly one pause is outstanding.  So no two
\* fetches occur without a pause between them.
C11_PauseAfterEveryCell ==
    /\ pc \in {"fetch", "completed"} => pauses = Len(fetched)
    /\ pc \in {"write", "pause"} => pauses = Len(fetched) - 1

\* a fetch is about to be issued after cells of all three kinds
C11_Witness ==
    /\ pc = "fetch"
    /\ report.done > 0
    /\ report.skipped > 0
    /\ report.failed > 0
    /\ pauses = Len(fetched)

----------------------------------------------------------------------------
\* C12: cells are fetched one at a time in the order of the outer loop over
\* the banks (registry order) and the inner loop over the record types in the
\* order income, balancesheet, fina_indicator, dividend: the n-th fetch of a run
\* is that of the n-th cell of this order, the cell in progress is the last one
\* fetched, no cell is fetched twice (a failed one included), and a completed
\* run has fetched every cell.
C12_SequentialTraversal ==
    LET catalog == <<"income", "balancesheet", "fina_indicator", "dividend">>
        nth(n) == <<bank_codes[((n - 1) \div 4) + 1], catalog[((n - 1) % 4) + 1]>>
    IN /\ Len(fetched) <= 4 * Len(bank_codes)
       /\ \A n \in 1..Len(fetched) : fetched[n] = nth(n)
       /\ \A m, n \in 1..Len(fetched) : fetched[m] = fetched[n] => m = n
       /\ pc \in {"write", "pause"} =>
             fetched[Len(fetched)] = <<bank_codes[i], TS_API_LIST[j]>>
       /\ pc = "completed" => Len(fetched) = 4 * Len(bank_codes)

\* a completed run over two banks in which a cell failed
C12_Witness ==
    /\ pc = "completed"
    /\ Len(bank_codes) = 2
    /\ Len(fetched) = 8
    /\ report.failed > 0

----------------------------------------------------------------------------
\* the last fetch returned a DataFrame without rows
EmptyFetched == ~df.error /\ df.columns # {} /\ df.rows = <<>>

\* C13: when the fetch of a cell returns zero rows, no write is issued, every
\* table is as it was when the cell started, the cell ends as skipped and not
\* as failed, and the driver goes on: it pauses and then either stands at the
\* next cell of the traversal or has completed the run.
C13_EmptyFetchIsNoOp ==
    EmptyFetched =>
        /\ outcome = "skipped"
        /\ tables = before
        /\ pc \in {"pause", "fetch", "completed"}
        /\ pc = "fetch" =>
              /\ Len(fetched) < Len(CellOrder(bank_codes))
              /\ <<bank_codes[i], TS_API_LIST[j]>> =
                     CellOrder(bank_codes)[Len(fetched) + 1]
        /\ pc = "completed" => fetched = CellOrder(bank_codes)

\* the driver stands at the next cell after an empty fetch for a table that
\* holds rows
C13_Witness ==
    /\ EmptyFetched
    /\ pc = "fetch"
    /\ tables[TABLE_MAPPING[fetched[Len(fetched)][2]]] # {}
    /\ report.skipped > 0

----------------------------------------------------------------------------
\* some row of the batch carries a key that is stored already, or the key of
\* another row of the batch
Collides ==
    \E n \in 1..Len(df.rows) :
        \/ \E e \in StoredBefore : PrimaryKey(e) = PrimaryKey(df.rows[n])
        \/ \E m \in 1..Len(df.rows) :
              m # n /\ PrimaryKey(df.rows[m]) = PrimaryKey(df.rows[n])

\* C14: key collisions are resolved, never raised: whatever has been written,
\* every table holds at most one row per key (ts_code, end_date), and a write
\* whose rows collide with stored keys or with each other ends as done unless
\* a chunk raised for another reason (connection fault, row without its key).
C14_CollisionsResolved ==
    /\ \A t \in TableNames : OneRowPerKey(tables[t])
    /\ (pc \in {"w1", "w2"} /\ Collides /\ ~ChunkRaised) => outcome = "done"

\* a done write of a batch that carries a stored key twice
C14_Witness ==
    /\ pc = "w1"
    /\ outcome = "done"
    /\ \E e \in StoredBefore : Cardinality(Hits(PrimaryKey(e))) >= 2

----------------------------------------------------------------------------
\* a run over a registry of at most one bank
InitOneBank == Init /\ Len(banks.stock_code) <= 1

\* run_fetcher is one sequential process: when every call it makes returns or
\* raises, the step it stands at is eventually taken
FairSpec == InitOneBank /\ [][Next]_vars /\ WF_vars(Next)

\* the process has ended with exit code 0 after the fetch of every cell of the
\* registry, as completed when the registry holds a bank
RunEnded ==
    /\ exit_code = <<0>>
    /\ fetched = CellOrder(banks.stock_code)
    /\ banks.stock_code # <<>> => pc = "completed"

\* C15: a run whose initialization succeeded and whose registry can be read
\* always ends with exit code 0 after processing all cells, however many of
\* them failed, and it ends as completed (an empty registry ends the run with
\* exit code 0 before the loop).
C15_RunCompletes == (pc = "lookup" /\ banks.readable) ~> RunEnded

\* a run has completed with exit code 0 after failed cells
C15_Witness ==
    /\ RunEnded
    /\ pc = "completed"
    /\ Len(fetched) = Len(TS_API_LIST)
    /\ report.failed >= 2

----------------------------------------------------------------------------
\* C16: when the driver completes, the completion line reports the number of
\* cells that ended done, skipped and failed; the three numbers are those of
\* the cells that ended so, and they sum to the number of banks times the
\* number of record types.
C16_CompletionSummary ==
    pc = "completed" =>
        /\ \A how \in {"done", "skipped", "failed"} :
              how \in DOMAIN summary /\ summary[how] = report[how]
        /\ report.done + report.skipped + report.failed =
              Len(bank_codes) * Len(TS_API_LIST)

----------------------------------------------------------------------------
\* C17 - Resolution of a key over a write history in a statement table.

\* batch row n as it is handed to the write
Written(n) == NormaliseUpdateFlag(df).rows[n]

BatchKeys == {PrimaryKey(df.rows[n]) : n \in 1..Len(df.rows)}

\* positions of the batch that carry key k with a true marker
MarkedTrue(k) == IF HasMarkerColumn THEN TrueHits(k) ELSE {}

\* The stored row of k is the last written row of k whose marker is true, if
\* the batch has one; otherwise it is the row stored before the write, which
\* stands for the history before it (the last true-marker row of that history
\* if its marker is 1, else the first row ever written); with no such row it is
\* the first row of the batch for k.
ResolvedByHistory(k) ==
    IF MarkedTrue(k) # {}
    THEN Written(Last(MarkedTrue(k))) \in Stored
    ELSE IF \E e \in StoredBefore : PrimaryKey(e) = k
    THEN \A e \in StoredBefore : PrimaryKey(e) = k => e \in Stored
    ELSE Written(First(Hits(k))) \in Stored

StatementWritten ==
    /\ pc \in {"w1", "w2"}
    /\ IsStatement(CellApi)
    /\ outcome = "done"

----------------------------------------------------------------------------
\* C18 - The merge rule follows the columns of the batch.

\* a write with mysql_insert_update has completed (any record type but dividend)
MergeWriteDone ==
    /\ pc = "w1"
    /\ CellApi # "dividend"
    /\ outcome = "done"

\* the stored row of key k holds, in every column of the batch, the value of
\* batch row n, and in every other column what e held
TakenFrom(k, n, e) ==
    \E c \in Stored :
        /\ PrimaryKey(c) = k
        /\ \A col \in df.columns : c[col] = Written(n)[col]
        /\ \A col \in DOMAIN e \ df.columns : c[col] = e[col]

----------------------------------------------------------------------------
\* C19 - A missing revision marker counts as false.

\* positions of the batch whose update_flag value is absent
AbsentMarker ==
    IF HasMarkerColumn
    THEN {n \in 1..Len(df.rows) : df.rows[n]["update_flag"] = "NaN"}
    ELSE {}

StoredBeforeFor(kk) == {e \in StoredBefore : PrimaryKey(e) = kk}

\* C19: a fetched row whose update_flag is absent is written with marker 0.
\* It changes no field of a row stored under its key (that row stays as it is
\* unless another row of the batch, with a true marker, replaces it), its
\* payload is stored only when the key was not present before it, and then it
\* is stored with marker 0.
C19_AbsentMarkerIsFalse ==
    (pc = "w1" /\ outcome = "done") =>
        \A n \in AbsentMarker :
            LET kk == PrimaryKey(df.rows[n])
                fresh == StoredBeforeFor(kk) = {} /\ n = First(Hits(kk))
            IN /\ Written(n)["update_flag"] = 0
               /\ (CellApi = "dividend" \/ TrueHits(kk) = {}) =>
                     \A e \in StoredBeforeFor(kk) : e \in Stored
               /\ HoldsPayloadOf(Stored, kk, n) =>
                     (fresh /\ Written(n) \in Stored)
               /\ (fresh /\ (CellApi = "dividend" \/ TrueHits(kk) = {})) =>
                     Written(n) \in Stored

\* a statement batch of two rows without marker: the first met a stored
\* corrected row and left it, the second brought a new key and is stored with
\* marker 0
C19_Witness ==
    /\ pc = "w1"
    /\ outcome = "done"
    /\ IsStatement(CellApi)
    /\ AbsentMarker = {1, 2}
    /\ \E e \in StoredBefore :
          /\ PrimaryKey(e) = PrimaryKey(df.rows[1])
          /\ e \in Stored
    /\ StoredBeforeFor(PrimaryKey(df.rows[2])) = {}
    /\ Written(2) \in Stored
    /\ Written(2)["update_flag"] = 0

----------------------------------------------------------------------------
\* create_database.execute_sql_script

\* longest script, in pieces between ';' separators
MaxScript == 3

\* a piece of white space only (as after the last ';' of a file)
Blank == " "

Pieces == {Blank, "CREATE DATABASE IF NOT EXISTS bank_fina", "USE bank_fina",
           "CREATE TABLE t_income"}

\* str.strip() on a piece
Strip(piece) == IF piece = Blank THEN "" ELSE piece

\* line 60: [cmd.strip() for cmd in sql_script.split(';') if cmd.strip()]
SplitScript(script) ==
    LET stripped == [n \in 1..Len(script) |-> Strip(script[n])]
        NonEmpty(cmd) == cmd # ""
    IN SelectSeq(stripped, NonEmpty)

\* line 65: command.strip().upper().startswith("USE")
IsUse(command) == command = "USE bank_fina"

\* what the caller may pass: the settings with and without a database entry
ConfigWithoutDatabase == [host |-> "localhost", user |-> "root"]

ConfigWithDatabase ==
    [host |-> "localhost", user |-> "root", database |-> "bank_fina"]

\* dict.pop(key) on a copy: the entries that stay
Without(config, key) == [q \in DOMAIN config \ {key} |-> config[q]]

\* dict[key] = value
WithEntry(config, key, value) ==
    [q \in DOMAIN config \cup {key} |-> IF q = key THEN value ELSE config[q]]

\* errno of a call to the server: 0 when it succeeds, -1 for an exception that
\* is not a mysql.connector.Error
ConnectErrnos == {0, 1045, 2003}

StatementErrnos == {0, 1050, 1007, 1064, 2013, -1}

ReconnectErrnos == {0, 1049, 2003}

CommitErrnos == {0, 2013}

\* errors after which the connection is no longer connected
LostErrnos == {2013}

\* line 83: the errors of a statement that are skipped
SkipsEveryError(errno) == errno # -1

SkipsError(errno) == errno \in {1050, 1007}

\* run_fetcher is not running
FetcherIdle ==
    /\ banks = [readable |-> FALSE, stock_code |-> <<>>]
    /\ bank_codes = <<>>
    /\ i = 1
    /\ j = 1
    /\ df = NoFrame
    /\ fault = 0
    /\ tables = EmptyTables
    /\ before = tables
    /\ outcome = "none"
    /\ fetched = <<>>
    /\ report = ZeroReport
    /\ exit_code = <<>>
    /\ pauses = 0
    /\ summary = NoSummary

Scripts ==
    UNION {[1..n -> Pieces] : n \in 0..MaxScript}

InitSchema ==
    /\ pc = "s_call"
    /\ FetcherIdle
    /\ db_config \in {ConfigWithDatabase, ConfigWithoutDatabase}
    /\ at_call = db_config
    /\ temp_config = [q \in {} |-> ""]
    /\ db_name = ""
    /\ sql_script \in Scripts
    /\ sql_commands = <<>>
    /\ pos = 1
    /\ conns = <<>>
    /\ cnx = 0
    /\ attempts = <<>>
    /\ committed = FALSE

\* lines 46-50: the copy and the pop, outside the try (KeyError goes to the
\* caller)
CallScript ==
    /\ pc = "s_call"
    /\ IF "database" \in DOMAIN db_config
       THEN /\ temp_config' = Without(db_config, "database")
            /\ db_name' = db_config["database"]
            /\ pc' = "s_connect"
       ELSE /\ temp_config' = db_config
            /\ db_name' = db_name
            /\ pc' = "s_raised"
    /\ UNCHANGED <<db_config, at_call, sql_script, sql_commands, pos, conns,
                   cnx, attempts, committed>>
    /\ UNCHANGED fetcher_vars

\* lines 54-60: the first connection and the split of the script
ConnectServer ==
    /\ pc = "s_connect"
    /\ \E errno \in ConnectErrnos :
          IF errno = 0
          THEN /\ conns' = Append(conns, "open")
               /\ cnx' = Len(conns) + 1
               /\ sql_commands' = SplitScript(sql_script)
               /\ pc' = "s_loop"
          ELSE /\ pc' = "s_finally"
               /\ UNCHANGED <<conns, cnx, sql_commands>>
    /\ UNCHANGED <<db_config, at_call, temp_config, db_name, sql_script, pos,
                   attempts, committed>>
    /\ UNCHANGED fetcher_vars

\* the connection after an error of the server
AfterError(c, errno) ==
    IF errno \in LostErrnos THEN [c EXCEPT ![cnx] = "lost"] ELSE c

\* lines 62-88: one statement of the loop
ExecuteCommand ==
    /\ pc = "s_loop"
    /\ pos <= Len(sql_commands)
    /\ \E errno \in StatementErrnos :
          /\ attempts' = Append(attempts, <<pos, errno>>)
          /\ IF errno = 0
             THEN IF IsUse(sql_commands[pos])
                  THEN /\ conns' = [conns EXCEPT ![cnx] = "closed"]
                       /\ db_config' = WithEntry(db_config, "database", db_name)
                       /\ pc' = "s_reconnect"
                       /\ pos' = pos
                  ELSE /\ pos' = pos + 1
                       /\ pc' = "s_loop"
                       /\ UNCHANGED <<conns, db_config>>
             ELSE IF errno # -1 /\ SkipsError(errno)
             THEN /\ pos' = pos + 1
                  /\ pc' = "s_loop"
                  /\ conns' = AfterError(conns, errno)
                  /\ db_config' = db_config
             ELSE /\ pc' = "s_finally"
                  /\ conns' = AfterError(conns, errno)
                  /\ UNCHANGED <<pos, db_config>>
    /\ UNCHANGED <<at_call, temp_config, db_name, sql_script, sql_commands, cnx,
                   committed>>
    /\ UNCHANGED fetcher_vars

\* lines 73-75: the connection to the database after USE; an error of it is
\* the error of the USE statement
Reconnect ==
    /\ pc = "s_reconnect"
    /\ \E errno \in ReconnectErrnos :
          IF errno = 0
          THEN /\ conns' = Append(conns, "open")
               /\ cnx' = Len(conns) + 1
               /\ pos' = pos + 1
               /\ pc' = "s_loop"
               /\ attempts' = attempts
          ELSE /\ attempts' = [attempts EXCEPT ![Len(attempts)] = <<pos, errno>>]
               /\ IF SkipsError(errno)
                  THEN pos' = pos + 1 /\ pc' = "s_loop"
                  ELSE pos' = pos /\ pc' = "s_finally"
               /\ UNCHANGED <<conns, cnx>>
    /\ UNCHANGED <<db_config, at_call, temp_config, db_name, sql_script,
                   sql_commands, committed>>
    /\ UNCHANGED fetcher_vars

\* line 91, after the last statement
Commit ==
    /\ pc = "s_loop"
    /\ pos > Len(sql_commands)
    /\ \E errno \in CommitErrnos :
          /\ committed' = (errno = 0)
          /\ conns' = AfterError(conns, errno)
    /\ pc' = "s_finally"
    /\ UNCHANGED <<db_config, at_call, temp_config, db_name, sql_script,
                   sql_commands, pos, cnx, attempts>>
    /\ UNCHANGED fetcher_vars

\* lines 94-109: the except clauses print, the finally clause closes
Finally ==
    /\ pc = "s_finally"
    /\ conns' = IF cnx # 0 /\ conns[cnx] = "open"
                THEN [conns EXCEPT ![cnx] = "closed"]
                ELSE conns
    /\ pc' = "s_returned"
    /\ UNCHANGED <<db_config, at_call, temp_config, db_name, sql_script,
                   sql_commands, pos, cnx, attempts, committed>>
    /\ UNCHANGED fetcher_vars

NextSchema ==
    CallScript \/ ConnectServer \/ ExecuteCommand \/ Reconnect \/ Commit
        \/ Finally

SpecSchema == InitSchema /\ [][NextSchema]_vars

----------------------------------------------------------------------------
\* C20 - Schema script execution.

SchemaEnded == pc \in {"s_returned", "s_raised"}

\* C20: the statements are handed to the server in script order, one after the
\* other from the first; a statement that fails with 1050 or 1007 is skipped
\* and the next one still runs; a statement that fails with any other error is
\* the last one executed and no commit follows it; however the call ends, no
\* connection it opened is left open and db_config holds the entries it held
\* when the call was made.
C20_SchemaScript ==
    /\ Len(attempts) <= Len(sql_commands)
    /\ \A m \in 1..Len(attempts) : attempts[m][1] = m
    /\ \A m \in 1..Len(attempts) :
          attempts[m][2] \in {1050, 1007} =>
              \/ Len(attempts) > m
              \/ pos = m + 1 /\ pc = "s_loop"
              \/ m = Len(sql_commands)
    /\ \A m \in 1..Len(attempts) :
          attempts[m][2] \notin {0, 1050, 1007} =>
              /\ m = Len(attempts)
              /\ ~committed
              /\ pc \in {"s_finally", "s_returned"}
    /\ committed => Len(attempts) = Len(sql_commands)
    /\ SchemaEnded => \A c \in 1..Len(conns) : conns[c] # "open"
    /\ SchemaEnded => db_config = at_call

\* a call has returned after a skipped statement, a USE that reconnected and
\* a statement that failed with another error
C20_Witness ==
    /\ pc = "s_returned"
    /\ Len(sql_commands) = 3
    /\ Len(attempts) = 3
    /\ attempts[1][2] = 1007
    /\ IsUse(sql_commands[2])
    /\ attempts[2][2] = 0
    /\ attempts[3][2] = 1064
    /\ conns = <<"closed", "closed">>
    /\ ~committed

====
